---- MODULE Spec2Model ----
(***************************************************************************)
(* Irrigation schedule planner: plan_schedule of src/constraints.py (the   *)
(* variant with the two-group balance constraint) and of src/sprinker.py   *)
(* (the variant without it), followed by main of src/sprinker.py.          *)
(*                                                                         *)
(* A planning run is a sequence of steps: the cycle calculation, the       *)
(* construction of the CP-SAT model, the solve, the decoding of the        *)
(* assignment into the two views, and main's handling of the result.       *)
(* The solver is external: solver.Solve is modelled as the choice of any   *)
(* assignment of the boolean grid that satisfies every constraint the      *)
(* code posted, or INFEASIBLE when there is none.                          *)
(*                                                                         *)
(* The controller side is src/controller.py: delete_autogen removes the    *)
(* generated programs from an OpenSprinkler controller, upload_schedule    *)
(* turns a day plan into interval-day programs.  The controller is         *)
(* external: it holds a list of programs addressed by position, and        *)
(* deleting one moves the later ones down by one.                          *)
(***************************************************************************)
EXTENDS Integers, Sequences, FiniteSets, TLC

(* ---- bounds of the explored inputs ---- *)
MaxLines == 3
MaxInterval == 3
MaxDuration == 2
MaxSlots == 2
MaxSlotMinutes == 4
\* largest num_days * num_slots grid (per line) for which a run is explored
MaxCells == 8
\* the runs with splash zones: number of zones and their common interval
MaxSplashLines == 4
MaxSplashInterval == 2
\* the controller runs: programs on the device, characters per program name
MaxPrograms == 4
MaxNameLen == 2

Groups == {"A", "B"}
Variants == {"constraints", "sprinker"}

\* Python's None
None == [kind |-> "None"]

VARIABLES
    variant,       \* which plan_schedule runs: src/constraints.py or src/sprinker.py
    lines,         \* the zone list handed to plan_schedule
    num_slots,     \* config["irrigation"]["daily_slots"]
    slot_minutes,  \* config["irrigation"]["slot_minutes"]
    pc,            \* position of the run
    max_interval,
    line_targets,
    num_days,
    num_vars,      \* number of BoolVars created in the CP-SAT model
    status,        \* solver status
    value,         \* value[l] = set of <<d, s>> with solver.Value(slots[(l, d, s)]) true
    solution,      \* what plan_schedule returns
    exc,           \* exception that ended the run, if any
    out,           \* what main printed, wrote and uploaded
    cfg_prefix,    \* config['irrigation']['program_name_prefix'] ("" when absent)
    device,        \* the program names on the controller, by index (0 first)
    programs,      \* controller.programs: the client's view of them, by index
    installed,     \* the programs on the controller when delete_autogen started
    to_delete,     \* the names delete_autogen has yet to delete
    dpc            \* position of delete_autogen

\* the controller side
ctl == <<cfg_prefix, device, programs, installed, to_delete, dpc>>

vars == <<variant, lines, num_slots, slot_minutes, pc, max_interval, line_targets,
          num_days, num_vars, status, value, solution, exc, out, ctl>>

(* ---- integer helpers, as Python computes them ---- *)
Abs(x) == IF x < 0 THEN -x ELSE x

\* Python's a // b (floor division), b # 0
PyFloorDiv(a, b) == IF b > 0 THEN a \div b ELSE (-a) \div (-b)

RECURSIVE Gcd(_, _)
Gcd(a, b) == IF b = 0 THEN Abs(a) ELSE Gcd(b, Abs(a) % Abs(b))

\* a slip: the largest interval taken for the common multiple
Lcm2Max(a, b) == IF a = 0 \/ b = 0 THEN 0 ELSE IF Abs(a) > Abs(b) THEN Abs(a) ELSE Abs(b)

\* math.lcm of two integers: 0 when either is 0, else |a*b| / gcd(a, b)
Lcm2(a, b) == IF a = 0 \/ b = 0 THEN 0 ELSE (Abs(a) \div Gcd(a, b)) * Abs(b)

\* math.lcm(*seq): lcm() = 1
RECURSIVE LcmSeq(_)
LcmSeq(seq) == IF seq = <<>> THEN 1 ELSE Lcm2(LcmSeq(Tail(seq)), Head(seq))

InSeq(x, seq) == \E i \in 1..Len(seq) : seq[i] = x

\* the list `intervals`: the distinct intervals in order of first appearance
RECURSIVE DistinctIntervals(_, _)
DistinctIntervals(ls, acc) ==
    IF ls = <<>> THEN acc
    ELSE IF InSeq(Head(ls).interval, acc) THEN DistinctIntervals(Tail(ls), acc)
         ELSE DistinctIntervals(Tail(ls), Append(acc, Head(ls).interval))

\* max_interval = lcm(*intervals)
MaxIntervalOf(ls) == LcmSeq(DistinctIntervals(ls, <<>>))

\* a slip: the target without the factor num_slots
LineTargetPerDay(m, l, ns) == PyFloorDiv(m, l.interval)

\* target = (max_interval // l.interval) * num_slots
LineTarget(m, l, ns) == PyFloorDiv(m, l.interval) * ns

(* ---- inputs ---- *)
LineAttrs == [interval : (-1)..MaxInterval, duration : 1..MaxDuration, group : Groups]

\* a zone; its name is unique (its position in the zone source)
MkLine(i, a) == [name |-> i, interval |-> a.interval, duration |-> a.duration,
                 group |-> a.group, splash |-> <<>>]

NoOut == [message |-> "", printed |-> FALSE, written |-> FALSE, uploaded |-> FALSE,
          deleted |-> FALSE]

\* the scenario of the specification's section 8: zones A and B, one per group,
\* interval 1, duration 10, with daily_slots = 2 and slot_minutes = 20
ScenarioLines ==
    <<MkLine(1, [interval |-> 1, duration |-> 10, group |-> "A"]),
      MkLine(2, [interval |-> 1, duration |-> 10, group |-> "B"])>>

IsScenario == lines = ScenarioLines /\ num_slots = 2 /\ slot_minutes = 20

\* no controller run: delete_autogen is not called
ControllerIdle ==
    /\ cfg_prefix = <<>>
    /\ device = <<>>
    /\ programs = <<>>
    /\ installed = <<>>
    /\ to_delete = <<>>
    /\ dpc = "idle"

\* zones that share one interval, of which zone `from` (0: none) declares that
\* it splashes zone `to`; the splash list holds zone names
SplashAttrs == [duration : 1..MaxDuration, group : Groups]
MkSplashLine(i, interval, a, from, to) ==
    [name |-> i, interval |-> interval, duration |-> a.duration, group |-> a.group,
     splash |-> IF i = from THEN <<to>> ELSE <<>>]

\* plan_schedule of src/constraints.py handed zones with splash lists, and a
\* slot budget in which every duration fits
InitSplash ==
    /\ variant = "constraints"
    /\ num_slots \in 1..MaxSlots
    /\ slot_minutes = MaxSlotMinutes
    /\ \E n \in 0..MaxSplashLines : \E interval \in 1..MaxSplashInterval :
       \E f \in [1..n -> SplashAttrs] : \E from \in 0..n : \E to \in 1..n :
          /\ from # to
          /\ from = 0 => to = 1
          /\ lines = [i \in 1..n |-> MkSplashLine(i, interval, f[i], from, to)]
    /\ pc = "start"
    /\ max_interval = 0
    /\ line_targets = <<>>
    /\ num_days = 0
    /\ num_vars = 0
    /\ status = "UNKNOWN"
    /\ value = <<>>
    /\ solution = None
    /\ exc = "none"
    /\ out = NoOut
    /\ ControllerIdle

Init ==
    /\ variant \in Variants
    /\ \/ /\ num_slots \in 1..MaxSlots
          /\ slot_minutes \in 0..MaxSlotMinutes
          /\ \E n \in 0..MaxLines : \E f \in [1..n -> LineAttrs] :
                lines = [i \in 1..n |-> MkLine(i, f[i])]
          /\ MaxIntervalOf(lines) * num_slots * num_slots <= MaxCells
       \/ IsScenario
    /\ pc = "start"
    /\ max_interval = 0
    /\ line_targets = <<>>
    /\ num_days = 0
    /\ num_vars = 0
    /\ status = "UNKNOWN"
    /\ value = <<>>
    /\ solution = None
    /\ exc = "none"
    /\ out = NoOut
    /\ ControllerIdle

(* ---- Constraint Model Builder: plan_schedule lines 29-148 ---- *)
all_lines == 1..Len(lines)
Cells == (0..(num_days - 1)) \X (0..(num_slots - 1))

\* add_checked_implication: the implication is posted only inside the horizon
CheckedImplication(d, s, nd, ns, implied) ==
    IF nd >= num_days \/ ns >= num_slots THEN {}
    ELSE {[d |-> d, s |-> s, nd |-> nd, ns |-> ns, implied |-> implied]}

\* a slip: the next watering kept in the same slot
NextSlotSame(s) == s

\* next_s = (s + 1) % num_slots
NextSlot(s) == (s + 1) % num_slots

\* the while loop of lines 92-101: the (nd, ns) it visits before it breaks at
\* (next_d, next_s); it terminates only when (next_d, next_s) lies ahead
RECURSIVE InBetween(_, _, _, _, _)
InBetween(nd, ns, next_d, next_s, acc) ==
    LET ns1 == IF ns + 1 = num_slots THEN 0 ELSE ns + 1
        nd1 == IF ns + 1 = num_slots THEN nd + 1 ELSE nd
    IN  IF nd1 = next_d /\ ns1 = next_s THEN acc
        ELSE InBetween(nd1, ns1, next_d, next_s, acc \cup {<<nd1, ns1>>})

\* the implications posted for line l (lines 84-101), interval > 0
Implications(l) ==
    UNION { LET next_d == c[1] + lines[l].interval
                next_s == NextSlot(c[2])
            IN  CheckedImplication(c[1], c[2], next_d, next_s, TRUE)
                \cup UNION { CheckedImplication(c[1], c[2], b[1], b[2], FALSE) :
                             b \in InBetween(c[1], c[2], next_d, next_s, {}) }
          : c \in Cells }

\* the loop of lines 94-101 never reaches its break for a negative interval
LoopDiverges == \E l \in all_lines : lines[l].interval < 0

(* ---- the posted constraints, over an assignment a: line -> set of cells ---- *)
Var(a, l, d, s) == IF <<d, s>> \in a[l] THEN 1 ELSE 0

\* sum over the lines of group g ("*": every line) of duration * slots[(l, d, s)]
Load(a, d, s, g) ==
    LET acc[k \in 0..Len(lines)] ==
            IF k = 0 THEN 0
            ELSE acc[k - 1] + (IF g = "*" \/ lines[k].group = g
                               THEN lines[k].duration * Var(a, k, d, s) ELSE 0)
    IN  acc[Len(lines)]

\* a slip: the comparison turned around
SlotCapacityInverted(a) == \A c \in Cells : Load(a, c[1], c[2], "*") >= slot_minutes

\* a slip: the budget applied to each line alone instead of to the sum
SlotCapacityPerLine(a) ==
    \A c \in Cells : \A l \in all_lines :
        lines[l].duration * Var(a, l, c[1], c[2]) <= slot_minutes

\* limit slot duration (lines 42-48)
SlotCapacity(a) == \A c \in Cells : Load(a, c[1], c[2], "*") <= slot_minutes

\* a slip: the whole slot budget as the group limit
GroupLimitWhole == slot_minutes

\* group_limit = slot_minutes // 2
GroupLimit == slot_minutes \div 2

\* a slip: the two "> 0" constraints left out
GroupBalanceNoFloor(a) ==
    \A c \in Cells : \A g \in Groups : Load(a, c[1], c[2], g) <= GroupLimit

\* equal time for each group within a slot (constraints.py lines 50-65)
GroupBalance(a) ==
    \A c \in Cells : \A g \in Groups :
        /\ Load(a, c[1], c[2], g) > 0
        /\ Load(a, c[1], c[2], g) <= GroupLimit

\* meet line targets (lines 67-73), for the cells p of line l
MeetsTarget(l, p) == Cardinality(p) = line_targets[l]

\* line intervals and alternating slot (lines 75-101): the cells p of a line
\* obey the implications imps posted for it
ImplicationsHold(imps, p) ==
    \A imp \in imps :
        <<imp.d, imp.s>> \in p => ((<<imp.nd, imp.ns>> \in p) = imp.implied)

\* tmp of lines 141-145: the line itself plus its splash lines watered in the cell
SplashCount(a, l, d, s) ==
    LET sp == lines[l].splash
        acc[k \in 0..Len(sp)] ==
            IF k = 0 THEN Var(a, l, d, s) ELSE acc[k - 1] + Var(a, sp[k], d, s)
    IN  acc[Len(sp)]

SetMax(S) == CHOOSE x \in S : \A y \in S : y <= x
SetMin(S) == CHOOSE x \in S : \A y \in S : x <= y

\* "even out slot load" (lines 105-116): objective = min over the cells of the
\* cell's load
SlotLoadObjective(a) == SetMin({Load(a, c[1], c[2], "*") : c \in Cells})

\* "minimize group mismatch" (lines 118-134): objective = max over the cells of
\* |load of group A - load of group B|
GroupDiffObjective(a) ==
    SetMax({Abs(Load(a, c[1], c[2], "A") - Load(a, c[1], c[2], "B")) : c \in Cells})

\* "minimize overlapping splash" (lines 136-148): objective = max of 0 and the
\* splash counts
SplashObjective(a) ==
    SetMax({0} \cup {SplashCount(a, l, c[1], c[2]) : l \in all_lines, c \in Cells})

\* the tmp and objective variables of lines 109-115 are NewIntVar(0, slot_minutes)
SlotLoadAuxiliaries(a) ==
    /\ \A c \in Cells : Load(a, c[1], c[2], "*") \in 0..slot_minutes
    /\ SlotLoadObjective(a) \in 0..slot_minutes

\* the tmp and objective variables of lines 129-133 are NewIntVar(0, slot_minutes)
GroupDiffAuxiliaries(a) ==
    /\ \A c \in Cells :
          Abs(Load(a, c[1], c[2], "A") - Load(a, c[1], c[2], "B")) \in 0..slot_minutes
    /\ GroupDiffObjective(a) \in 0..slot_minutes

\* the tmp and objective variables of lines 143-147 are NewIntVar(0, num_lines)
SplashAuxiliaries(a) ==
    /\ \A l \in all_lines : \A c \in Cells :
          SplashCount(a, l, c[1], c[2]) \in 0..Len(lines)
    /\ SplashObjective(a) \in 0..Len(lines)

\* the auxiliary integer variables of the soft constraints have bounded domains
\* (lines 109, 129, 143): an assignment must leave each of them a value
SoftAuxiliaries(a) ==
    /\ variant = "constraints" => SlotLoadAuxiliaries(a) /\ GroupDiffAuxiliaries(a)
    /\ SplashAuxiliaries(a)

\* the model.Maximize / model.Minimize calls in the order plan_schedule makes
\* them: constraints.py lines 116, 134, 148; sprinker.py makes the last one only
Declarations ==
    IF variant = "constraints"
    THEN <<[sense |-> "Maximize", of |-> "slotload"],
           [sense |-> "Minimize", of |-> "groupdiff"],
           [sense |-> "Minimize", of |-> "splash"]>>
    ELSE <<[sense |-> "Minimize", of |-> "splash"]>>

\* a slip: the first declaration stays the objective of the model
ObjectiveInForceFirst == Declarations[1]

\* a CpModel holds one objective: each Maximize / Minimize call replaces the
\* one set before, so Solve sees the last declaration
ObjectiveInForce == Declarations[Len(Declarations)]

\* the value of the declared objective `of` under assignment a
ObjectiveTerm(of, a) ==
    CASE of = "slotload"  -> SlotLoadObjective(a)
      [] of = "groupdiff" -> GroupDiffObjective(a)
      [] of = "splash"    -> SplashObjective(a)

\* the objective in force at Solve, as a cost: the smaller the better
Objective(a) ==
    IF ObjectiveInForce.sense = "Maximize"
    THEN 0 - ObjectiveTerm(ObjectiveInForce.of, a)
    ELSE ObjectiveTerm(ObjectiveInForce.of, a)

\* the cell sets of line l that satisfy the constraints on l alone
LinePatterns(l) ==
    LET imps == Implications(l)
    IN  {p \in SUBSET Cells : MeetsTarget(l, p) /\ ImplicationsHold(imps, p)}

\* the assignments of lines 1..k that satisfy the per-line constraints
RECURSIVE PerLine(_)
PerLine(k) ==
    IF k = 0 THEN {<<>>}
    ELSE LET pats == LinePatterns(k)
         IN  {Append(a, p) : a \in PerLine(k - 1), p \in pats}

\* solver.Solve(model): every assignment that satisfies all posted constraints,
\* hard ones and the auxiliaries of the soft ones; the per-line ones are
\* filtered first
Feasible ==
    {a \in PerLine(Len(lines)) :
        /\ SlotCapacity(a)
        /\ variant = "constraints" => GroupBalance(a)
        /\ SoftAuxiliaries(a)}

\* the assignments that satisfy the hard constraints (lines 40-101), soft
\* constraints and their auxiliary variables left aside
HardFeasible ==
    {a \in PerLine(Len(lines)) :
        /\ SlotCapacity(a)
        /\ variant = "constraints" => GroupBalance(a)}

\* status = solver.Solve(model) and the values it leaves in the solver: OPTIMAL
\* with an assignment that minimises the objective, FEASIBLE with any other
\* feasible one (an interrupted search), INFEASIBLE when there is none
SolveOutcomes ==
    LET F == Feasible
        best == SetMin({Objective(b) : b \in F})
    IN  IF F = {}
        THEN {[status |-> "INFEASIBLE", value |-> <<>>]}
        ELSE {[status |-> IF Objective(a) = best THEN "OPTIMAL" ELSE "FEASIBLE",
               value |-> a] : a \in F}

(* ---- Solution Decoder: lines 155-179 ---- *)
\* slot_plan of (d, s): the lines watered there, in line order
SlotPlan(a, d, s) ==
    LET idx == SelectSeq([i \in all_lines |-> i], LAMBDA i : <<d, s>> \in a[i])
    IN  [k \in 1..Len(idx) |-> lines[idx[k]]]

\* days_plan[d + 1][s + 1] is the slot_plan of day d, slot s
DaysPlan(a) ==
    [d1 \in 1..num_days |-> [s1 \in 1..num_slots |-> SlotPlan(a, d1 - 1, s1 - 1)]]

\* the (d, s, l) triples in the order the decoding loops visit them
VisitOrder ==
    LET n == Len(lines)
    IN  [k \in 1..(num_days * num_slots * n) |->
            <<(k - 1) \div (num_slots * n), ((k - 1) \div n) % num_slots, ((k - 1) % n) + 1>>]

\* a slip: the pair appended as (s, d)
OccurrenceSwapped(d, s) == <<s, d>>

\* what line_plan.setdefault(lines[l], []).append((d, s)) appends for a hit
Occurrence(d, s) == <<d, s>>

\* line_plan: each watered line -> its (d, s) in the order they were appended
LinePlan(a) ==
    LET keys == {lines[l] : l \in {i \in all_lines : a[i] # {}}}
    IN  [key \in keys |->
            LET hits == SelectSeq(VisitOrder,
                                  LAMBDA t : lines[t[3]] = key /\ <<t[1], t[2]>> \in a[t[3]])
            IN  [k \in 1..Len(hits) |-> Occurrence(hits[k][1], hits[k][2])]]

\* lines 155-170
Decode(st, a) ==
    IF st \in {"OPTIMAL", "FEASIBLE"}
    THEN [kind |-> "schedule", days_plan |-> DaysPlan(a), line_plan |-> LinePlan(a)]
    ELSE None

(* ---- plan_schedule ---- *)
\* Cycle Calculator: lines 6-28
CycleCalc ==
    /\ pc = "start"
    /\ max_interval' = MaxIntervalOf(lines)
    /\ IF \E i \in 1..Len(lines) : lines[i].interval = 0
       THEN \* line 25: max_interval // l.interval divides by zero
            /\ pc' = "raised"
            /\ exc' = "ZeroDivisionError"
            /\ UNCHANGED <<line_targets, num_days>>
       ELSE /\ line_targets' = [i \in 1..Len(lines) |->
                                    LineTarget(max_interval', lines[i], num_slots)]
            /\ num_days' = max_interval' * num_slots
            /\ pc' = "build"
            /\ UNCHANGED exc
    /\ UNCHANGED <<variant, lines, num_slots, slot_minutes, num_vars, status, value,
                   solution, out, ctl>>

\* model construction, solve and decoding: lines 29-179
BuildAndSolve ==
    /\ pc = "build"
    /\ num_vars' = Len(lines) * num_days * num_slots
    /\ IF LoopDiverges
       THEN \* lines 94-101 spin: plan_schedule never returns
            /\ pc' = "looping"
            /\ UNCHANGED <<status, value, solution>>
       ELSE /\ \E r \in SolveOutcomes :
                   /\ status' = r.status
                   /\ value' = r.value
                   /\ solution' = Decode(r.status, r.value)
            /\ pc' = "returned"
    /\ UNCHANGED <<variant, lines, num_slots, slot_minutes, max_interval, line_targets,
                   num_days, exc, out, ctl>>

(* ---- main of src/sprinker.py, after plan_schedule returned: lines 316-331 ---- *)
\* a slip: the return after the message left out
MainNoScheduleFallsThrough ==
    /\ pc = "returned"
    /\ variant = "sprinker"
    /\ solution = None
    /\ \E print \in BOOLEAN, write \in BOOLEAN, upload \in BOOLEAN :
          out' = [message  |-> "No schedule found.",
                  printed  |-> print,
                  written  |-> write,
                  uploaded |-> upload,
                  deleted  |-> FALSE]
    /\ pc' = "exit"
    /\ UNCHANGED <<variant, lines, num_slots, slot_minutes, max_interval, line_targets,
                   num_days, num_vars, status, value, solution, exc, ctl>>

\* if not schedule: print('No schedule found.'); return
MainNoSchedule ==
    /\ pc = "returned"
    /\ variant = "sprinker"
    /\ solution = None
    /\ out' = [out EXCEPT !.message = "No schedule found."]
    /\ pc' = "exit"
    /\ UNCHANGED <<variant, lines, num_slots, slot_minutes, max_interval, line_targets,
                   num_days, num_vars, status, value, solution, exc, ctl>>

\* --print, --write_file, --upload / --delete
MainOutput ==
    /\ pc = "returned"
    /\ variant = "sprinker"
    /\ solution # None
    /\ \E print \in BOOLEAN, write \in BOOLEAN, upload \in BOOLEAN, delete \in BOOLEAN :
          out' = [message  |-> "",
                  printed  |-> print,
                  written  |-> write,
                  uploaded |-> upload,
                  deleted  |-> ~upload /\ delete]
    /\ pc' = "exit"
    /\ UNCHANGED <<variant, lines, num_slots, slot_minutes, max_interval, line_targets,
                   num_days, num_vars, status, value, solution, exc, ctl>>

(* ---- src/controller.py: delete_autogen, lines 96-100 and 124-144 ---- *)
\* a name is the sequence of its characters
Chars == {"a", " "}
RECURSIVE SeqsUpTo(_, _)
SeqsUpTo(S, n) ==
    IF n = 0 THEN {<<>>}
    ELSE LET shorter == SeqsUpTo(S, n - 1)
         IN  shorter \cup {Append(q, x) : q \in shorter, x \in S}
Names == SeqsUpTo(Chars, MaxNameLen)

\* str.startswith
StartsWith(name, prefix) ==
    /\ Len(prefix) <= Len(name)
    /\ SubSeq(name, 1, Len(prefix)) = prefix

\* get_name_prefix: a configured prefix gets a space appended
NamePrefix == IF cfg_prefix # <<>> THEN Append(cfg_prefix, " ") ELSE <<>>

\* the sequence without its k-th element: the later ones move down by one
RemoveAt(seq, k) ==
    [i \in 1..(Len(seq) - 1) |-> IF i < k THEN seq[i] ELSE seq[i + 1]]

\* the controller's answer to /dp?pid=idx
DeviceDelete(dev, idx) == IF idx \in 0..(Len(dev) - 1) THEN RemoveAt(dev, idx + 1) ELSE dev

\* a slip: controller.programs left as it was before the request
ViewAfterUpdateStale(view, dev) == view

\* controller.programs once a request has changed the device: refreshed from it
ViewAfterUpdate(view, dev) == dev

\* delete_program's loop: the index of the first program of the view with
\* that name, or -1 when the loop ends without a hit
LookupIndex(view, name) ==
    IF \E k \in 1..Len(view) : view[k] = name
    THEN (CHOOSE k \in 1..Len(view) :
              view[k] = name /\ \A j \in 1..(k - 1) : view[j] # name) - 1
    ELSE -1

\* the controller and the configuration delete_autogen is run against
InitDelete ==
    /\ variant = "constraints"
    /\ lines = <<>>
    /\ num_slots = 1
    /\ slot_minutes = 0
    /\ pc = "idle"
    /\ max_interval = 0
    /\ line_targets = <<>>
    /\ num_days = 0
    /\ num_vars = 0
    /\ status = "UNKNOWN"
    /\ value = <<>>
    /\ solution = None
    /\ exc = "none"
    /\ out = NoOut
    /\ cfg_prefix \in SeqsUpTo(Chars, MaxNameLen - 1)
    /\ \E n \in 0..MaxPrograms : device \in [1..n -> Names]
    /\ programs = <<>>
    /\ installed = device
    /\ to_delete = <<>>
    /\ dpc = "start"

\* lines 133-141: get_controller refreshes the view, then the names that
\* start with the prefix are collected
ListAutogen ==
    /\ dpc = "start"
    /\ programs' = device
    /\ to_delete' = SelectSeq(programs', LAMBDA name : StartsWith(name, NamePrefix))
    /\ dpc' = "deleting"
    /\ UNCHANGED <<variant, lines, num_slots, slot_minutes, pc, max_interval,
                   line_targets, num_days, num_vars, status, value, solution, exc, out,
                   cfg_prefix, device, installed>>

\* one round of the loop of lines 142-143: delete_program(controller, name)
DeleteProgram ==
    /\ dpc = "deleting"
    /\ to_delete # <<>>
    /\ LET idx == LookupIndex(programs, Head(to_delete))
       IN  IF idx = -1
           THEN UNCHANGED <<device, programs>>
           ELSE /\ device' = DeviceDelete(device, idx)
                /\ programs' = ViewAfterUpdate(programs, device')
    /\ to_delete' = Tail(to_delete)
    /\ UNCHANGED <<variant, lines, num_slots, slot_minutes, pc, max_interval,
                   line_targets, num_days, num_vars, status, value, solution, exc, out,
                   cfg_prefix, installed, dpc>>

\* line 144: controller.session_close()
SessionClose ==
    /\ dpc = "deleting"
    /\ to_delete = <<>>
    /\ dpc' = "closed"
    /\ UNCHANGED <<variant, lines, num_slots, slot_minutes, pc, max_interval,
                   line_targets, num_days, num_vars, status, value, solution, exc, out,
                   cfg_prefix, device, programs, installed, to_delete>>

NextDelete ==
    \/ ListAutogen
    \/ DeleteProgram
    \/ SessionClose

SpecDelete == InitDelete /\ [][NextDelete]_vars

(* ---- src/controller.py: upload_schedule, lines 31-121 ---- *)
\* the groups dict of stations_and_durations (lines 69-76) for the lines ls of
\* a slot: the groups in order of first appearance, each with its total duration
RECURSIVE GroupTotals(_, _)
GroupTotals(ls, acc) ==
    IF ls = <<>> THEN acc
    ELSE LET g == Head(ls).group
             hit == {k \in 1..Len(acc) : acc[k].key = g}
         IN  IF hit = {}
             THEN GroupTotals(Tail(ls), Append(acc, [key |-> g, total |-> Head(ls).duration]))
             ELSE GroupTotals(Tail(ls),
                              [k \in 1..Len(acc) |->
                                  IF k \in hit
                                  THEN [acc[k] EXCEPT !.total = @ + Head(ls).duration]
                                  ELSE acc[k]])

\* values[0] != values[1] of line 77 needs two groups in the slot
HasTwoGroups(ls) == Len(GroupTotals(ls, <<>>)) >= 2

\* stations_and_durations: station -> seconds, the seconds of the group with
\* the smaller total scaled up by the quotient of the totals; the seconds are
\* kept as the fraction num / den. Every zone has an enabled station, named
\* as the zone
StationsAndDurations(ls) ==
    LET groups == GroupTotals(ls, <<>>)
        v0 == groups[1].total
        v1 == groups[2].total
        scale_group == IF v0 = v1 THEN "none"
                       ELSE IF v0 < v1 THEN groups[1].key ELSE groups[2].key
        hi == IF v0 < v1 THEN v1 ELSE v0
        lo == IF v0 < v1 THEN v0 ELSE v1
        names == {ls[k].name : k \in 1..Len(ls)}
        lineOf(n) == CHOOSE l \in {ls[k] : k \in 1..Len(ls)} : l.name = n
    IN  [n \in names |->
            IF lineOf(n).group = scale_group
            THEN [num |-> lineOf(n).duration * 60 * hi, den |-> lo]
            ELSE [num |-> lineOf(n).duration * 60, den |-> 1]]

\* a slip: the cycle length taken for the period of the programs
UploadPeriodCycle(day_plan) == max_interval

\* num_days = len(day_plan), the interval of every program (line 110)
UploadPeriod(day_plan) == Len(day_plan)

\* the program create_program requests for slot slot_num of day day_num
\* (lines 31-65, 114-118): an interval-day program, days1 the interval and
\* days0 the remainder, started at the configured time of the slot
UploadProgram(day_plan, day_num, slot_num) ==
    [name      |-> NamePrefix \o <<"Day", day_num, "slot", slot_num>>,
     days0     |-> day_num - 1,
     days1     |-> UploadPeriod(day_plan),
     slot      |-> slot_num,
     durations |-> StationsAndDurations(day_plan[day_num][slot_num])]

\* the (day_num, slot_num) pairs in the order of the loops of lines 112-113
UploadOrder(day_plan) ==
    LET ns == IF day_plan = <<>> THEN 0 ELSE Len(day_plan[1])
    IN  [k \in 1..(Len(day_plan) * ns) |-> <<((k - 1) \div ns) + 1, ((k - 1) % ns) + 1>>]

\* how many programs upload_schedule creates before stations_and_durations
\* meets a slot without two groups, if it does
UploadedCount(day_plan) ==
    LET order == UploadOrder(day_plan)
        bad == {k \in 1..Len(order) : ~HasTwoGroups(day_plan[order[k][1]][order[k][2]])}
    IN  IF bad = {} THEN Len(order) ELSE SetMin(bad) - 1

\* upload_schedule(config, day_plan) on the schedule plan_schedule of
\* src/constraints.py returned: one program per (day, slot), appended to the
\* programs of the controller
UploadSchedule ==
    /\ pc = "returned"
    /\ variant = "constraints"
    /\ solution # None
    /\ LET day_plan == solution.days_plan
           order == UploadOrder(day_plan)
           n == UploadedCount(day_plan)
       IN  /\ device' = device \o [k \in 1..n |->
                                      UploadProgram(day_plan, order[k][1], order[k][2])]
           /\ IF n = Len(order)
              THEN pc' = "uploaded" /\ UNCHANGED exc
              ELSE pc' = "raised" /\ exc' = "IndexError"
    /\ programs' = device'
    /\ UNCHANGED <<variant, lines, num_slots, slot_minutes, max_interval, line_targets,
                   num_days, num_vars, status, value, solution, out,
                   cfg_prefix, installed, to_delete, dpc>>

Next ==
    \/ CycleCalc
    \/ BuildAndSolve
    \/ MainNoSchedule
    \/ MainOutput
    \/ UploadSchedule

Spec == Init /\ [][Next]_vars

\* plan_schedule and the upload of its schedule, on zones with splash lists
NextPlan ==
    \/ CycleCalc
    \/ BuildAndSolve
    \/ UploadSchedule

SpecSplash == InitSplash /\ [][NextPlan]_vars

(***************************************************************************)
(* Properties                                                              *)
(***************************************************************************)
\* the zone set is nonempty and every interval is positive
ValidZones == Len(lines) > 0 /\ \A i \in all_lines : lines[i].interval > 0

\* plan_schedule has returned / has returned a schedule
Returned == pc = "returned"
HasSchedule == Returned /\ solution.kind = "schedule"

\* the least common multiple of the zone intervals, by its definition
IsCommonMultiple(m) == \A i \in all_lines : m % lines[i].interval = 0
LeastCommonMultiple ==
    LET top == SetMax({lines[i].interval : i \in all_lines}) ^ Len(lines)
    IN  CHOOSE m \in 1..top :
            IsCommonMultiple(m) /\ \A k \in 1..(m - 1) : ~IsCommonMultiple(k)

\* position of a cell in day-then-slot enumeration order
CellIndex(c) == c[1] * num_slots + c[2]

\* the zones listed in cell (d, s) of the day-major view
CellOf(d, s) == solution.days_plan[d + 1][s + 1]

\* total duration of the zones of group g ("*": all) listed in cell (d, s)
CellDuration(d, s, g) ==
    LET sp == CellOf(d, s)
        acc[k \in 0..Len(sp)] ==
            IF k = 0 THEN 0
            ELSE acc[k - 1] + (IF g = "*" \/ sp[k].group = g THEN sp[k].duration ELSE 0)
    IN  acc[Len(sp)]

\* C1 (as amended): for the scenario A (group A, interval 1, duration 10),
\* B (group B, interval 1, duration 10), daily_slots = 2, slot_minutes = 20,
\* plan_schedule of src/constraints.py computes max_interval = 1, num_days = 2
\* and target 2 for each zone, and returns the no-schedule outcome.
ScenarioHasNoSchedule ==
    (IsScenario /\ variant = "constraints") =>
        /\ pc \notin {"raised", "looping"}
        /\ pc # "start" => (max_interval = 1 /\ num_days = 2 /\ line_targets = <<2, 2>>)
        /\ Returned => (status = "INFEASIBLE" /\ solution = None)

\* C1 as stated: the scenario yields a schedule with A and B in all 4 cells
ScenarioHasSchedule ==
    (IsScenario /\ variant = "constraints" /\ Returned) =>
        /\ max_interval = 1 /\ num_days = 2 /\ line_targets = <<2, 2>>
        /\ solution.kind = "schedule"
        /\ \A d \in 0..1, s \in 0..1 :
              InSeq(ScenarioLines[1], CellOf(d, s)) /\ InSeq(ScenarioLines[2], CellOf(d, s))

ScenarioReturned == IsScenario /\ variant = "constraints" /\ pc = "returned"

\* C2: in every returned schedule, consecutive occurrences of a zone are
\* interval days apart, advance one slot modulo daily_slots, and the zone is
\* watered in no cell strictly between them.
Spacing ==
    HasSchedule =>
        \A key \in DOMAIN solution.line_plan :
            LET occ == solution.line_plan[key]
            IN  \A k \in 1..(Len(occ) - 1) :
                    /\ occ[k + 1][1] = occ[k][1] + key.interval
                    /\ occ[k + 1][2] = (occ[k][2] + 1) % num_slots
                    /\ \A c \in Cells :
                          (CellIndex(occ[k]) < CellIndex(c) /\ CellIndex(c) < CellIndex(occ[k + 1]))
                              => ~InSeq(key, CellOf(c[1], c[2]))

SpacingWitness ==
    /\ HasSchedule
    /\ num_slots = 2
    /\ \E key \in DOMAIN solution.line_plan :
          key.interval = 2 /\ Len(solution.line_plan[key]) >= 2

\* C3: in every returned schedule, each zone's occurrence list has exactly
\* (max_interval / interval) * daily_slots entries, max_interval the LCM of
\* the zone intervals.
TargetCounts ==
    HasSchedule =>
        \A l \in all_lines :
            /\ lines[l] \in DOMAIN solution.line_plan
            /\ Len(solution.line_plan[lines[l]])
                 = (LeastCommonMultiple \div lines[l].interval) * num_slots

TargetCountsWitness ==
    /\ HasSchedule
    /\ num_slots = 2
    /\ \E i, j \in all_lines : lines[i].interval = 1 /\ lines[j].interval = 2

\* C9: for a nonempty zone set with positive intervals the cycle calculation
\* yields max_interval = LCM of the intervals, num_days = max_interval *
\* daily_slots, and targets (max_interval / interval) * daily_slots without
\* remainder, so that target * interval = num_days.
CycleCalcCorrect ==
    (ValidZones /\ pc # "start") =>
        /\ max_interval = LeastCommonMultiple
        /\ num_days = max_interval * num_slots
        /\ \A i \in all_lines :
              /\ max_interval % lines[i].interval = 0
              /\ line_targets[i] = (max_interval \div lines[i].interval) * num_slots
              /\ num_days % lines[i].interval = 0
              /\ line_targets[i] * lines[i].interval = num_days

CycleCalcWitness ==
    /\ ValidZones
    /\ pc = "build"
    /\ max_interval = 6
    /\ \E i, j \in all_lines : lines[i].interval = 2 /\ lines[j].interval = 3

\* C4: in every returned schedule, the durations of the zones listed in a
\* cell of the day-major view sum to at most slot_minutes.
Capacity ==
    HasSchedule => \A c \in Cells : CellDuration(c[1], c[2], "*") <= slot_minutes

CapacityWitness ==
    /\ HasSchedule
    /\ \E c \in Cells :
          Len(CellOf(c[1], c[2])) >= 2 /\ CellDuration(c[1], c[2], "*") = slot_minutes

\* C5: in every schedule returned by plan_schedule of src/constraints.py,
\* each cell holds watering of both groups: the group-A total and the group-B
\* total are each > 0 and at most slot_minutes // 2.
GroupBalanced ==
    (HasSchedule /\ variant = "constraints") =>
        \A c \in Cells : \A g \in Groups :
            /\ CellDuration(c[1], c[2], g) > 0
            /\ CellDuration(c[1], c[2], g) <= slot_minutes \div 2

GroupBalancedWitness ==
    /\ HasSchedule
    /\ variant = "constraints"
    /\ slot_minutes = 3
    /\ num_days >= 2

\* C6: with slot_minutes = 0 and a nonempty set of zones (positive intervals,
\* section 3 of the specification), plan_schedule raises nothing and returns
\* None, never a schedule.
ZeroCapacityIsNoSchedule ==
    (slot_minutes = 0 /\ ValidZones) =>
        /\ pc \notin {"raised", "looping"}
        /\ exc = "none"
        /\ Returned => (status = "INFEASIBLE" /\ solution = None)

ZeroCapacityWitness ==
    /\ slot_minutes = 0
    /\ ValidZones
    /\ pc = "returned"
    /\ Len(lines) >= 2

\* C7: given no zones, or a zone with a zero or negative interval,
\* plan_schedule fails with a configuration error before any decision
\* variable is created: it never goes on to the model, to a solve or to a
\* result, and never ends in another exception or in a loop.
ConfigErrorBeforeModel ==
    ~ValidZones =>
        /\ pc \in {"start", "raised"}
        /\ pc = "raised" => exc = "ConfigurationError"
        /\ num_vars = 0
        /\ status = "UNKNOWN"

\* C8: the two views agree: a zone is listed in cell [d][s] of the day-major
\* view iff (d, s) is in the occurrence list stored under the zone.
ViewsConsistent ==
    HasSchedule =>
        /\ \A l \in all_lines : \A c \in Cells :
              InSeq(lines[l], CellOf(c[1], c[2]))
                  <=> /\ lines[l] \in DOMAIN solution.line_plan
                      /\ InSeq(c, solution.line_plan[lines[l]])
        /\ \A key \in DOMAIN solution.line_plan :
              /\ InSeq(key, lines)
              /\ \A k \in 1..Len(solution.line_plan[key]) :
                    solution.line_plan[key][k] \in Cells

ViewsConsistentWitness ==
    /\ HasSchedule
    /\ Len(lines) >= 2
    /\ \E key \in DOMAIN solution.line_plan :
          \E k \in 1..Len(solution.line_plan[key]) :
              solution.line_plan[key][k][1] # solution.line_plan[key][k][2]

\* C10: a planning run is all-or-nothing: plan_schedule returns None or a
\* schedule whose day-major view has num_days days of daily_slots slots each,
\* and after None main prints, writes and uploads no schedule.
AllOrNothing ==
    /\ pc \in {"start", "build", "raised", "looping"} => solution = None
    /\ pc \in {"returned", "exit"} =>
          \/ solution = None /\ status \notin {"OPTIMAL", "FEASIBLE"}
          \/ /\ solution.kind = "schedule"
             /\ status \in {"OPTIMAL", "FEASIBLE"}
             /\ Len(solution.days_plan) = num_days
             /\ \A d \in 1..num_days : Len(solution.days_plan[d]) = num_slots
    /\ (pc = "exit" /\ solution = None) =>
          ~out.printed /\ ~out.written /\ ~out.uploaded

AllOrNothingWitness ==
    /\ pc = "exit"
    /\ solution = None
    /\ out.message = "No schedule found."
    /\ ValidZones

\* C11: when plan_schedule of src/constraints.py has returned, splash
\* minimisation (the last of its three declared objectives) is the objective
\* the solve ran under: the status is INFEASIBLE exactly when no assignment
\* satisfies the hard constraints (and leaves the splash variables a value),
\* a returned assignment is OPTIMAL exactly when no such assignment has a
\* smaller maximum splash count, whatever its slot-load and group-difference
\* values are, and the auxiliary variables of the two earlier objectives have
\* a value under every assignment that satisfies the hard constraints
SplashIsTheObjective ==
    (Returned /\ variant = "constraints") =>
        LET H == HardFeasible
            S == {a \in H : SplashAuxiliaries(a)}
        IN  /\ ObjectiveInForce = [sense |-> "Minimize", of |-> "splash"]
            /\ \A b \in H : SlotLoadAuxiliaries(b) /\ GroupDiffAuxiliaries(b)
            /\ (status = "INFEASIBLE") = (S = {})
            /\ status # "INFEASIBLE" =>
                  /\ value \in S
                  /\ (status = "OPTIMAL") =
                        (\A b \in S : SplashObjective(value) <= SplashObjective(b))

\* an optimal schedule was returned although another assignment that
\* satisfies the hard constraints has a larger minimum slot load, and the
\* splash count tells assignments apart
SplashIsTheObjectiveWitness ==
    /\ HasSchedule
    /\ variant = "constraints"
    /\ status = "OPTIMAL"
    /\ \E b \in HardFeasible : SlotLoadObjective(b) > SlotLoadObjective(value)
    /\ \E b \in HardFeasible : SplashObjective(b) > SplashObjective(value)

\* the programs of `installed` whose name does not start with prefix, in order
Kept(prefix) == SelectSeq(installed, LAMBDA name : ~StartsWith(name, prefix))

\* C12, as stated: when delete_autogen has ended, the controller holds the
\* programs whose name does not start with the configured name prefix, and
\* no others
DeletesConfiguredPrefix == dpc = "closed" => device = Kept(cfg_prefix)

\* C12, amended: when delete_autogen has ended, the controller holds exactly
\* the programs whose name does not start with the prefix get_name_prefix
\* returns (the configured prefix followed by a space; the empty prefix when
\* none is configured, so that every program is deleted); and each deletion
\* removes from the controller one program that holds the targeted name at
\* the time of the request
DeletesNamePrefix ==
    /\ [](dpc = "closed" => device = Kept(NamePrefix))
    /\ [][device' # device =>
              \E k \in 1..Len(device) :
                  /\ device[k] = Head(to_delete)
                  /\ device' = RemoveAt(device, k)]_vars

\* delete_autogen has ended after deleting two programs that had a program
\* to keep between them, the second one at an index that had shifted; a
\* program whose name starts with the configured prefix but not with the
\* prefix followed by a space is still there
DeletesNamePrefixWitness ==
    /\ dpc = "closed"
    /\ cfg_prefix # <<>>
    /\ \E i, j, k \in 1..Len(installed) :
          /\ i < j /\ j < k
          /\ StartsWith(installed[i], NamePrefix)
          /\ ~StartsWith(installed[j], NamePrefix)
          /\ StartsWith(installed[j], cfg_prefix)
          /\ StartsWith(installed[k], NamePrefix)
    /\ device = Kept(NamePrefix)

\* the schedule was programmed into the controller
Uploaded == pc = "uploaded"

\* the controller runs an interval-day program on the days t with
\* t mod days1 = days0; zone z is then watered in the program's slot
WateredAt(z, t, s) ==
    \E k \in 1..Len(device) :
        /\ t % device[k].days1 = device[k].days0
        /\ device[k].slot = s + 1
        /\ z.name \in DOMAIN device[k].durations

\* the waterings of zone z over two periods, as (day, slot)
Waterings(z) ==
    {w \in (0..(2 * num_days - 1)) \X (0..(num_slots - 1)) : WateredAt(z, w[1], w[2])}

\* C13: every zone of a returned schedule has its occurrences in one chain,
\* each one interval days and one slot (cyclically) after the one before, the
\* first on a day below the interval, the last one interval before the first
\* of the next period and one slot before it; and once upload_schedule has
\* programmed the schedule with period num_days, each watering of a zone is
\* followed, also across the end of the period, by the next one interval
\* days later in the next slot, with none in between
RepeatsWithPeriod ==
    /\ (HasSchedule \/ Uploaded) =>
          \A l \in all_lines :
              /\ lines[l] \in DOMAIN solution.line_plan
              /\ LET occ == solution.line_plan[lines[l]]
                     first == occ[1]
                     last == occ[Len(occ)]
                 IN  /\ \A k \in 1..(Len(occ) - 1) :
                           occ[k + 1] = <<occ[k][1] + lines[l].interval,
                                          (occ[k][2] + 1) % num_slots>>
                     /\ first[1] < lines[l].interval
                     /\ last[1] + lines[l].interval = first[1] + num_days
                     /\ (last[2] + 1) % num_slots = first[2]
    /\ Uploaded =>
          \A l \in all_lines :
              LET W == Waterings(lines[l])
              IN  /\ \A c \in Cells :
                        (c \in W) = (\E k \in 1..Len(solution.line_plan[lines[l]]) :
                                         solution.line_plan[lines[l]][k] = c)
                  /\ \A w \in W :
                        w[1] + lines[l].interval < 2 * num_days =>
                            /\ <<w[1] + lines[l].interval, (w[2] + 1) % num_slots>> \in W
                            /\ \A v \in W :
                                  ~ /\ CellIndex(w) < CellIndex(v)
                                    /\ CellIndex(v) < CellIndex(<<w[1] + lines[l].interval,
                                                                  (w[2] + 1) % num_slots>>)

\* a schedule with two daily slots was programmed; a zone's last watering of
\* the period is in a slot other than its first, and on a day other than its
\* first
RepeatsWithPeriodWitness ==
    /\ Uploaded
    /\ num_slots >= 2
    /\ Len(device) = num_days * num_slots
    /\ \E l \in all_lines :
          LET occ == solution.line_plan[lines[l]]
          IN  /\ Len(occ) >= 2
              /\ occ[1][1] < occ[Len(occ)][1]
              /\ occ[1][2] # occ[Len(occ)][2]

====
